---- MODULE Spec2Model ----
(***************************************************************************)
(* A model of the SOCKS5 proxy of src/src/main.rs.                         *)
(*                                                                         *)
(* Spec       the timeout block of handle_client for one session:         *)
(*            greeting, method selection, username/password                *)
(*            sub-negotiation, request, CONNECT / UDP ASSOCIATE dispatch,  *)
(*            up to the point where a relay starts or the session ends.    *)
(* SpecRelay  the TCP relay of a session that Spec brought to "relay":     *)
(*            two tokio::io::copy futures raced by select!.                *)
(* SpecUdp    the UDP association of a session that Spec brought to        *)
(*            "udp_relay": handle_udp's datagram pump raced against the    *)
(*            one-byte read on the controlling TCP socket.                 *)
(*                                                                         *)
(* Bytes are integers 0..255, byte strings are sequences of bytes, Rust    *)
(* Strings are sequences of Unicode code points.                           *)
(***************************************************************************)
EXTENDS Integers, Sequences, FiniteSets, TLC

\* ------------------------------------------------------------------ bounds
\* longest username / password a modelled client submits
MaxCredLen == 2
\* most methods a modelled greeting offers
MaxMethods == 2
\* most bytes a modelled peer sends in one relay direction
MaxRelay == 3
\* longest domain name a modelled request carries
MaxDomainLen == 1
\* most datagrams a modelled association receives
MaxDatagrams == 3
\* most connections the modelled listener accepts
MaxSessions == 3
\* most errors the modelled listener's accept returns
MaxAcceptErrs == 2

\* --------------------------------------------------------------- variables
VARIABLES
    cfgUsername,    \* args.username : Option<String>
    cfgPassword,    \* args.password : Option<String>
    pc,             \* position of handle_client
    err,            \* how handle_client ended ("none" while running)
    clientOut,      \* every write_all on the client socket, in order
    clientBroken,   \* the client socket was reset: writes on it fail
    buf,            \* the greeting's two bytes, [0u8; 2] before they are read
    nmethods,       \* buf[1] of the greeting
    methods,        \* the method list read
    uname,          \* username bytes read in the sub-negotiation
    passwd,         \* password bytes read in the sub-negotiation
    head,           \* the 4 request header bytes, <<>> before they are read
    target,         \* target_addr_str, as [atyp, host, port]
    connectResult,  \* how TcpStream::connect ended, "none" before it ran
    udpResult,      \* how the UDP ASSOCIATE branch's bind ended, "none" before
    rd,             \* relay: bytes each copy has read from its source
    cbuf,           \* relay: bytes each copy holds, read and not yet written
    wr,             \* relay: bytes each copy has written to its destination
    eof,            \* relay: the copy's reader returned 0 (read_done)
    client_addr,    \* client_stream.peer_addr(), as [ip, port]
    udpOpen,        \* the session holds an open UDP socket
    upc,            \* handle_udp's position: "recv" or "lookup"
    client_udp_addr,\* handle_udp's client_udp_addr : Option<SocketAddr>
    lastPkt,        \* the datagram the last recv_from returned, as [src, data]
    lastSend,       \* the send_to made for that datagram, None if none (yet)
    nRecv,          \* datagrams received so far
    nToTarget,      \* send_to calls made towards targets
    nToClient,      \* send_to calls made towards the client
    srv,            \* position of main
    tasks,          \* the tasks main has spawned, by order of accept
    nAcceptErr,     \* errors listener.accept() has returned
    signalled       \* tokio::signal::ctrl_c() has completed

vars == <<cfgUsername, cfgPassword, pc, err, clientOut, clientBroken, buf, nmethods,
          methods, uname, passwd, head, target, connectResult,
          udpResult, rd, cbuf, wr, eof, client_addr, udpOpen, upc,
          client_udp_addr, lastPkt, lastSend, nRecv, nToTarget, nToClient,
          srv, tasks, nAcceptErr, signalled>>

cfgVars == <<cfgUsername, cfgPassword>>
authVars == <<buf, nmethods, methods, uname, passwd>>
reqVars == <<head, target, connectResult, udpResult>>
relayVars == <<rd, cbuf, wr, eof>>
pumpVars == <<upc, client_udp_addr, lastPkt, lastSend, nRecv, nToTarget, nToClient>>
udpVars == <<client_addr, udpOpen, pumpVars>>
srvVars == <<srv, tasks, nAcceptErr, signalled>>
sessionVars == <<pc, err, clientOut, clientBroken, authVars, reqVars, relayVars,
                 udpVars>>

\* ------------------------------------------------------------------ Option
None == [some |-> FALSE, val |-> <<>>]
Some(v) == [some |-> TRUE, val |-> v]

\* ------------------------------------------------------------------- UTF-8
\* U+FFFD REPLACEMENT CHARACTER
Replacement == 65533

RECURSIVE LossyFrom(_, _)
\* String::from_utf8_lossy: the code points of b[i..], every maximal invalid
\* prefix of a UTF-8 sequence replaced by U+FFFD
LossyFrom(b, i) ==
    IF i > Len(b) THEN <<>>
    ELSE LET x == b[i]
             In(j, lo, hi) == j <= Len(b) /\ b[j] >= lo /\ b[j] <= hi
         IN  IF x < 128 THEN <<x>> \o LossyFrom(b, i + 1)
             ELSE IF x >= 194 /\ x <= 223 THEN
                 IF In(i + 1, 128, 191)
                 THEN <<(x - 192) * 64 + (b[i + 1] - 128)>> \o LossyFrom(b, i + 2)
                 ELSE <<Replacement>> \o LossyFrom(b, i + 1)
             ELSE IF x >= 224 /\ x <= 239 THEN
                 LET lo2 == IF x = 224 THEN 160 ELSE 128
                     hi2 == IF x = 237 THEN 159 ELSE 191
                 IN  IF ~In(i + 1, lo2, hi2)
                     THEN <<Replacement>> \o LossyFrom(b, i + 1)
                     ELSE IF ~In(i + 2, 128, 191)
                     THEN <<Replacement>> \o LossyFrom(b, i + 2)
                     ELSE <<(x - 224) * 4096 + (b[i + 1] - 128) * 64 + (b[i + 2] - 128)>>
                          \o LossyFrom(b, i + 3)
             ELSE IF x >= 240 /\ x <= 244 THEN
                 LET lo2 == IF x = 240 THEN 144 ELSE 128
                     hi2 == IF x = 244 THEN 143 ELSE 191
                 IN  IF ~In(i + 1, lo2, hi2)
                     THEN <<Replacement>> \o LossyFrom(b, i + 1)
                     ELSE IF ~In(i + 2, 128, 191)
                     THEN <<Replacement>> \o LossyFrom(b, i + 2)
                     ELSE IF ~In(i + 3, 128, 191)
                     THEN <<Replacement>> \o LossyFrom(b, i + 3)
                     ELSE <<(x - 240) * 262144 + (b[i + 1] - 128) * 4096
                            + (b[i + 2] - 128) * 64 + (b[i + 3] - 128)>>
                          \o LossyFrom(b, i + 4)
             ELSE <<Replacement>> \o LossyFrom(b, i + 1)

from_utf8_lossy(b) == LossyFrom(b, 1)

RECURSIVE as_bytes(_)
\* the UTF-8 bytes of a String
as_bytes(s) ==
    IF s = <<>> THEN <<>>
    ELSE LET c == Head(s)
             e == IF c < 128 THEN <<c>>
                  ELSE IF c < 2048 THEN <<192 + (c \div 64), 128 + (c % 64)>>
                  ELSE IF c < 65536
                  THEN <<224 + (c \div 4096), 128 + ((c \div 64) % 64), 128 + (c % 64)>>
                  ELSE <<240 + (c \div 262144), 128 + ((c \div 4096) % 64),
                         128 + ((c \div 64) % 64), 128 + (c % 64)>>
         IN  e \o as_bytes(Tail(s))

\* ------------------------------------------------------------ input domains
\* all sequences over S of length at most n
SeqsUpTo(S, n) == UNION {[1..k -> S] : k \in 0..n}

\* the Strings a modelled configuration uses: "a" and "\u{FFFD}"
CfgStrings == {<<97>>, <<Replacement>>}
UsernameOptions == {None, Some(<<97>>)}
PasswordOptions == {None} \cup {Some(s) : s \in CfgStrings}

\* the bytes modelled clients build usernames and passwords from:
\* 'a' and the three bytes EF BF BD of U+FFFD (BF and BD alone are invalid)
CredBytes == {97, 239, 191, 189}
CredInputs == SeqsUpTo(CredBytes, MaxCredLen)

\* method identifiers offered: no-auth, GSSAPI, username/password
MethodBytes == {0, 1, 2}
\* VER bytes sent
VerBytes == {4, 5}
\* CMD bytes sent: CONNECT, BIND, UDP ASSOCIATE, unknown
CmdBytes == {1, 2, 3, 9}
\* ATYP bytes sent: IPv4, domain, IPv6, unknown
AtypBytes == {1, 3, 4, 5}

\* ------------------------------------------------------------------ replies
\* reply_error's ten bytes
ErrorReply(rep) == <<5, rep, 0, 1, 0, 0, 0, 0, 0, 0>>
SuccessReply == <<5, 0, 0, 1, 0, 0, 0, 0, 0, 0>>

\* the TCP peer of the modelled session
ClientAddr == [ip |-> <<127, 0, 0, 1>>, port |-> 4000]

\* ----------------------------------------------------------- initial state

\* the slots of main's spawned tasks
Sessions == 1..MaxSessions

\* main as the session specifications see it: listening, the modelled
\* session being its first spawned task
ServingOne ==
    /\ srv = "listening"
    /\ tasks = [i \in Sessions |-> IF i = 1 THEN "running" ELSE "none"]
    /\ nAcceptErr = 0
    /\ signalled = FALSE

\* a session as handle_client finds it: nothing read, nothing written
SessionStart ==
    /\ pc = "greeting"
    /\ err = "none"
    /\ clientOut = <<>>
    /\ clientBroken = FALSE
    /\ buf = <<0, 0>>
    /\ nmethods = 0
    /\ methods = <<>>
    /\ uname = <<>>
    /\ passwd = <<>>
    /\ head = <<>>
    /\ target = None
    /\ connectResult = "none"
    /\ udpResult = "none"
    /\ rd = [d \in {"c2t", "t2c"} |-> <<>>]
    /\ cbuf = [d \in {"c2t", "t2c"} |-> <<>>]
    /\ wr = [d \in {"c2t", "t2c"} |-> <<>>]
    /\ eof = [d \in {"c2t", "t2c"} |-> FALSE]
    /\ client_addr = ClientAddr
    /\ udpOpen = FALSE
    /\ upc = "recv"
    /\ client_udp_addr = None
    /\ lastPkt = None
    /\ lastSend = None
    /\ nRecv = 0
    /\ nToTarget = 0
    /\ nToClient = 0

Init ==
    /\ cfgUsername \in UsernameOptions
    /\ cfgPassword \in PasswordOptions
    /\ SessionStart
    /\ ServingOne

\* ---------------------------------------------------------- action helpers
\* handle_client returns Err(e): every socket the session owns is dropped
Fail(e) == pc' = "closed" /\ err' = e

\* write_all(bytes) on the client socket, then `ok`; a broken socket makes the
\* `?` after the write return the I/O error instead
Write(bytes, ok) ==
    IF clientBroken
    THEN Fail("io") /\ clientOut' = clientOut
    ELSE clientOut' = Append(clientOut, bytes) /\ ok

\* write_all(bytes) and then return Err(e)
WriteThenFail(bytes, e) == Write(bytes, Fail(e))

\* a reply_error whose caller goes on instead of returning
reply_errorNoReturn(rep, e) == Write(ErrorReply(rep), pc' = pc /\ err' = err)

\* reply_error(stream, rep).await?; return Err(e)
reply_error(rep, e) == WriteThenFail(ErrorReply(rep), e)

Range(f) == {f[i] : i \in DOMAIN f}

\* u16::from_be_bytes / u16::to_be_bytes
from_be_bytes(b) == b[1] * 256 + b[2]
to_be_bytes(p) == <<p \div 256, p % 256>>

\* ------------------------------------------------------------ configuration
\* main: `if args.username.is_some() { info!("Authentication enabled") }`
AuthEnabled == cfgUsername.some

\* handle_client: `if let (Some(username), Some(password)) = (..)`
AuthConfigured == cfgUsername.some /\ cfgPassword.some

\* handle_client: the negation of
\* `client_username != *username || client_password != *password`
CredentialsMatch(u, p) ==
    /\ from_utf8_lossy(u) = cfgUsername.val
    /\ from_utf8_lossy(p) = cfgPassword.val

\* ---------------------------------------------------------------- greeting
\* a version check that also lets SOCKS4 through
VersionOkSocks4(ver) == ver = 4 \/ ver = 5

\* the negation of `ver != 0x05`, in the greeting and in the request
VersionOk(ver) == ver = 5

\* read_exact(&mut buf) of VER, NMETHODS and the version check
ReadGreeting ==
    /\ pc = "greeting"
    /\ \E ver \in VerBytes, n \in 0..MaxMethods :
          /\ buf' = <<ver, n>>
          /\ nmethods' = n
          /\ IF ~VersionOk(ver)
             THEN Fail("version")
             ELSE pc' = "methods" /\ err' = err
    /\ UNCHANGED <<srvVars, udpVars, cfgVars, clientOut, clientBroken, methods, uname, passwd,
                   reqVars, relayVars>>

\* read_exact(&mut methods) and the method selection
ReadMethods ==
    /\ pc = "methods"
    /\ \E m \in [1..nmethods -> MethodBytes] :
          /\ methods' = m
          /\ IF AuthConfigured
             THEN IF 2 \notin Range(m)
                  THEN WriteThenFail(<<5, 255>>, "nomethod")
                  ELSE Write(<<5, 2>>, pc' = "auth_ver" /\ err' = err)
             ELSE IF 0 \notin Range(m)
                  THEN WriteThenFail(<<5, 255>>, "nomethod")
                  ELSE Write(<<5, 0>>, pc' = "request" /\ err' = err)
    /\ UNCHANGED <<srvVars, udpVars, cfgVars, clientBroken, buf, nmethods, uname, passwd,
                   reqVars, relayVars>>

\* read_exact(&mut auth_ver) and its check
ReadAuthVer ==
    /\ pc = "auth_ver"
    /\ \E v \in {1, 5} :
          IF v # 1 THEN Fail("authver") ELSE pc' = "auth_cred" /\ err' = err
    /\ UNCHANGED <<srvVars, udpVars, cfgVars, clientOut, clientBroken, authVars, reqVars, relayVars>>

\* the reads of ULEN, uname, PLEN, passwd and the credential check
ReadCredentials ==
    /\ pc = "auth_cred"
    /\ \E u \in CredInputs, p \in CredInputs :
          /\ uname' = u
          /\ passwd' = p
          /\ IF ~CredentialsMatch(u, p)
             THEN WriteThenFail(<<1, 1>>, "authfail")
             ELSE Write(<<1, 0>>, pc' = "request" /\ err' = err)
    /\ UNCHANGED <<srvVars, udpVars, cfgVars, clientBroken, buf, nmethods, methods, reqVars,
                   relayVars>>

\* ----------------------------------------------------------------- request
SupportedAtyp == {1, 3, 4}

\* read_exact(&mut head), the version check and the `_ =>` arm of `match atyp`
ReadRequestHead ==
    /\ pc = "request"
    /\ \E ver \in VerBytes, cmd \in CmdBytes, atyp \in AtypBytes :
          /\ head' = <<ver, cmd, 0, atyp>>
          /\ IF ~VersionOk(ver)
             THEN Fail("reqver") /\ clientOut' = clientOut
             ELSE IF atyp \notin SupportedAtyp
             THEN reply_error(8, "atyp")
             ELSE pc' = "addr" /\ err' = err /\ clientOut' = clientOut
    /\ UNCHANGED <<srvVars, udpVars, cfgVars, clientBroken, authVars, target, connectResult,
                   udpResult, relayVars>>

\* the address bytes a modelled client sends for each ATYP
AddrInputs(atyp) ==
    IF atyp = 1 THEN {<<127, 0, 0, 1>>}
    ELSE IF atyp = 3 THEN SeqsUpTo({97}, MaxDomainLen)
    ELSE {[i \in 1..16 |-> IF i = 16 THEN 1 ELSE 0]}

\* the host part of target_addr_str: the octets of an IP address, or the
\* lossily decoded domain name
HostOf(atyp, a) == IF atyp = 3 THEN from_utf8_lossy(a) ELSE a

\* a dispatch that takes BIND for CONNECT
CommandKindBindAsConnect(cmd) ==
    IF cmd = 1 \/ cmd = 2 THEN "connect" ELSE IF cmd = 3 THEN "udp" ELSE "unsupported"

\* `if cmd == 0x01 { .. } else if cmd == 0x03 { .. } else { .. }`
CommandKind(cmd) ==
    IF cmd = 1 THEN "connect" ELSE IF cmd = 3 THEN "udp" ELSE "unsupported"

\* the arms 0x01, 0x03, 0x04 of `match atyp`, then the dispatch on cmd up to
\* the next await
ReadAddr ==
    /\ pc = "addr"
    /\ \E a \in AddrInputs(head[4]), port_buf \in {<<0, 80>>} :
          /\ target' = Some([atyp |-> head[4], host |-> HostOf(head[4], a),
                             port |-> from_be_bytes(port_buf)])
          /\ IF CommandKind(head[2]) = "connect"
             THEN pc' = "connect" /\ err' = err /\ clientOut' = clientOut
             ELSE IF CommandKind(head[2]) = "udp"
             THEN pc' = "udp_bind" /\ err' = err /\ clientOut' = clientOut
             ELSE reply_error(7, "cmd")
    /\ UNCHANGED <<srvVars, udpVars, cfgVars, clientBroken, authVars, head, connectResult,
                   udpResult, relayVars>>

\* ----------------------------------------------------------------- CONNECT
\* how TcpStream::connect(&target_addr_str) can end; an empty host name does
\* not resolve
ConnectOutcomes(t) ==
    IF t.atyp = 3 /\ t.host = <<>>
    THEN {"other"}
    ELSE {"ok", "refused", "host_unreachable", "net_unreachable", "ttl_expired",
          "other"}

\* an `Err(e)` arm that sends REP 0x00
ConnectErrorRepSucceeded(kind) == 0

\* the REP the `Err(e)` arm of the connect sends
ConnectErrorRep(kind) == 4

\* TcpStream::connect and either arm of its match, up to the end of the
\* timeout block
Connect ==
    /\ pc = "connect"
    /\ \E r \in ConnectOutcomes(target.val) :
          /\ connectResult' = r
          /\ IF r = "ok"
             THEN Write(SuccessReply, pc' = "relay" /\ err' = err)
             ELSE reply_error(ConnectErrorRep(r), "connect")
    /\ UNCHANGED <<srvVars, udpVars, cfgVars, clientBroken, authVars, head, target, udpResult,
                   relayVars>>

\* ----------------------------------------------------------- UDP ASSOCIATE
\* the port the kernel gives the UDP socket
UdpPorts == {40000}

\* peer_addr()?, UdpSocket::bind("0.0.0.0:0")?, and the reply carrying the
\* port; the socket is dropped again when the reply cannot be written
UdpBind ==
    /\ pc = "udp_bind"
    /\ \E r \in {"ok", "bind_failed"} \cup (IF clientBroken THEN {"no_peer"} ELSE {}),
          port \in UdpPorts :
          /\ udpResult' = r
          /\ IF r = "ok"
             THEN Write(<<5, 0, 0, 1, 0, 0, 0, 0>> \o to_be_bytes(port),
                        pc' = "udp_relay" /\ err' = err)
             ELSE Fail(r) /\ clientOut' = clientOut
          /\ udpOpen' = (r = "ok" /\ ~clientBroken)
    /\ UNCHANGED <<srvVars, client_addr, pumpVars, cfgVars, clientBroken, authVars, head, target, connectResult,
                   relayVars>>

\* ------------------------------------------------- timeout and the client
\* a deadline that covers the greeting only
HandshakePcsGreetingOnly == {"greeting", "methods"}

\* the positions inside timeout(TIMEOUT_DURATION, async { .. })
HandshakePcs == {"greeting", "methods", "auth_ver", "auth_cred", "request",
                 "addr", "connect", "udp_bind"}
\* the positions that wait in a read_exact on the client socket
ReadPcs == HandshakePcs \ {"connect", "udp_bind"}

\* the deadline fires: the block is dropped, `.context(..)?` returns the error
Timeout ==
    /\ pc \in HandshakePcs
    /\ Fail("timeout")
    /\ UNCHANGED <<srvVars, udpVars, cfgVars, clientOut, clientBroken, authVars, reqVars, relayVars>>

\* a read_exact fails: the client closed early or the read returned an error
ReadFail ==
    /\ pc \in ReadPcs
    /\ Fail("eof")
    /\ UNCHANGED <<srvVars, udpVars, cfgVars, clientOut, clientBroken, authVars, reqVars, relayVars>>

\* `client_stream.peer_addr()?` at the top of handle_client fails on a
\* connection that was reset before the session started
PeerAddrFail ==
    /\ pc = "greeting"
    /\ clientBroken
    /\ Fail("no_peer")
    /\ UNCHANGED <<srvVars, udpVars, cfgVars, clientOut, clientBroken, authVars, reqVars, relayVars>>

\* the client resets the connection
ClientBreak ==
    /\ pc # "closed"
    /\ ~clientBroken
    /\ clientBroken' = TRUE
    /\ UNCHANGED <<srvVars, udpVars, cfgVars, pc, err, clientOut, authVars, reqVars, relayVars>>

\* --------------------------------------------------------------- TCP relay
Dirs == {"c2t", "t2c"}
\* the bytes modelled peers send through the relay
RelayBytes == {1, 2}
\* the non-empty chunks a read can return when n more bytes may still come
Chunks(n) == SeqsUpTo(RelayBytes, n) \ {<<>>}

\* the bytes a copy hands to one write call: the front of its buffer
WriteSlice(b, k) == SubSeq(b, 1, k)

\* tokio::io::copy polls its reader when its buffer is empty: a read returns
\* a chunk
CopyRead(d) ==
    /\ pc = "relay"
    /\ cbuf[d] = <<>>
    /\ ~eof[d]
    /\ \E chunk \in Chunks(MaxRelay - Len(rd[d])) :
          /\ rd' = [rd EXCEPT ![d] = @ \o chunk]
          /\ cbuf' = [cbuf EXCEPT ![d] = chunk]
    /\ UNCHANGED <<srvVars, udpVars, cfgVars, pc, err, clientOut, clientBroken, authVars, reqVars,
                   wr, eof>>

\* the copy's writer accepts the first k buffered bytes
CopyWrite(d) ==
    /\ pc = "relay"
    /\ cbuf[d] # <<>>
    /\ \E k \in 1..Len(cbuf[d]) :
          /\ wr' = [wr EXCEPT ![d] = @ \o WriteSlice(cbuf[d], k)]
          /\ cbuf' = [cbuf EXCEPT ![d] = SubSeq(@, k + 1, Len(@))]
    /\ UNCHANGED <<srvVars, udpVars, cfgVars, pc, err, clientOut, clientBroken, authVars, reqVars,
                   rd, eof>>

\* what handle_client does when one copy of the select! returns Ok: the
\* branch's `?` passes, the other copy is dropped with the select!, and
\* handle_client returns Ok(()), dropping both streams
RelayAfterEof == "closed"

\* the copy's reader returns 0 with the buffer drained: the copy flushes and
\* returns Ok(amt), which completes the select!
CopyEof(d) ==
    /\ pc = "relay"
    /\ cbuf[d] = <<>>
    /\ ~eof[d]
    /\ eof' = [eof EXCEPT ![d] = TRUE]
    /\ pc' = RelayAfterEof
    /\ err' = IF RelayAfterEof = "closed" THEN "ok" ELSE err
    /\ UNCHANGED <<srvVars, udpVars, cfgVars, clientOut, clientBroken, authVars, reqVars, rd, cbuf, wr>>

\* a read or a write of the copy returns an error: `res.context(..)?`
\* returns it from handle_client
CopyErr(d) ==
    /\ pc = "relay"
    /\ ~eof[d]
    /\ Fail("relay_io")
    /\ UNCHANGED <<srvVars, udpVars, cfgVars, clientOut, clientBroken, authVars, reqVars, relayVars>>

\* ------------------------------------------------------------ specification
Next ==
    \/ ReadGreeting
    \/ ReadMethods
    \/ ReadAuthVer
    \/ ReadCredentials
    \/ ReadRequestHead
    \/ ReadAddr
    \/ Connect
    \/ UdpBind
    \/ Timeout
    \/ ReadFail
    \/ PeerAddrFail
    \/ ClientBreak

Spec == Init /\ [][Next]_vars

\* the session under a running timer: tokio's timeout returns Elapsed once
\* TIMEOUT_DURATION has passed with the block still pending
SpecTimeout == Init /\ [][Next]_vars /\ WF_vars(Timeout)

\* a session that Spec brought to the TCP relay: no authentication configured,
\* greeting 05 01 00, request 05 01 00 01 7F 00 00 01 00 50, connect succeeded
RelayInit ==
    /\ cfgUsername = None
    /\ cfgPassword = None
    /\ pc = "relay"
    /\ err = "none"
    /\ clientOut = <<<<5, 0>>, SuccessReply>>
    /\ clientBroken = FALSE
    /\ buf = <<5, 1>>
    /\ nmethods = 1
    /\ methods = <<0>>
    /\ uname = <<>>
    /\ passwd = <<>>
    /\ head = <<5, 1, 0, 1>>
    /\ target = Some([atyp |-> 1, host |-> <<127, 0, 0, 1>>, port |-> 80])
    /\ connectResult = "ok"
    /\ udpResult = "none"
    /\ rd = [d \in Dirs |-> <<>>]
    /\ cbuf = [d \in Dirs |-> <<>>]
    /\ wr = [d \in Dirs |-> <<>>]
    /\ eof = [d \in Dirs |-> FALSE]
    /\ client_addr = ClientAddr
    /\ udpOpen = FALSE
    /\ upc = "recv"
    /\ client_udp_addr = None
    /\ lastPkt = None
    /\ lastSend = None
    /\ nRecv = 0
    /\ nToTarget = 0
    /\ nToClient = 0
    /\ ServingOne

NextRelay ==
    \/ \E d \in Dirs : CopyRead(d)
    \/ \E d \in Dirs : CopyWrite(d)
    \/ \E d \in Dirs : CopyEof(d)
    \/ \E d \in Dirs : CopyErr(d)

SpecRelay == RelayInit /\ [][NextRelay]_vars

\* a session of a server started without credentials, followed from the
\* greeting through the CONNECT branch into the relay
ConnectInit ==
    /\ Init
    /\ cfgUsername = None
    /\ cfgPassword = None

\* handle_client on the no-auth path with the TCP relay behind it, for a
\* client whose connection stays up during the handshake (Spec has the
\* resets); a UDP ASSOCIATE request is followed up to its branch
NextConnect ==
    \/ ReadGreeting
    \/ ReadMethods
    \/ ReadRequestHead
    \/ ReadAddr
    \/ Connect
    \/ Timeout
    \/ ReadFail
    \/ NextRelay

SpecConnect == ConnectInit /\ [][NextConnect]_vars

\* ----------------------------------------------------------- UDP datagrams
\* all prefixes of a byte string: the datagram cut short at every length
Prefixes(s) == {SubSeq(s, 1, k) : k \in 0..Len(s)}

\* 16 address bytes of ::1
V6Octets == [i \in 1..16 |-> IF i = 16 THEN 1 ELSE 0]

\* the datagrams modelled peers send: a well-formed one per ATYP with a
\* one-byte payload, one addressed to a target on the client's own host, a
\* domain datagram with length byte 0, datagrams with FRAG or RSV set or an
\* unknown ATYP, and every truncation of the well-formed ones
Datagrams ==
    Prefixes(<<0, 0, 0, 1, 8, 8, 8, 8, 0, 53, 7>>)
    \cup Prefixes(<<0, 0, 0, 3, 1, 97, 0, 53, 7>>)
    \cup Prefixes(<<0, 0, 0, 4>> \o V6Octets \o <<0, 53, 7>>)
    \cup {<<0, 0, 0, 1, 127, 0, 0, 1, 0, 53, 7>>,
          <<0, 0, 0, 3, 0, 0, 53, 7>>,
          <<0, 0, 1, 1, 8, 8, 8, 8, 0, 53, 7>>,
          <<1, 0, 0, 1, 8, 8, 8, 8, 0, 53, 7>>,
          <<0, 1, 0, 1, 8, 8, 8, 8, 0, 53, 7>>,
          <<0, 0, 0, 5, 8, 8, 8, 8, 0, 53, 7>>}

\* where modelled datagrams come from: the client's host (two ports) and
\* another host
UdpSources == {[ip |-> <<127, 0, 0, 1>>, port |-> 5000],
               [ip |-> <<127, 0, 0, 1>>, port |-> 53],
               [ip |-> <<8, 8, 8, 8>>, port |-> 53]}

\* what lookup_host can return for a name: an error, no address, or a first
\* address; an empty name does not resolve
LookupOutcomes(host, port) ==
    IF host = <<>>
    THEN {[res |-> "err", addr |-> None]}
    ELSE {[res |-> "err", addr |-> None], [res |-> "empty", addr |-> None],
          [res |-> "ok", addr |-> Some([ip |-> <<8, 8, 8, 8>>, port |-> port])]}

\* a pump that takes every datagram for the client's
IsClientSourcedAny(src) == TRUE

\* handle_udp: `src_addr.ip() == client_ip`
IsClientSourced(src) == src.ip = client_addr.ip

\* handle_udp's parse of a client datagram up to the first await. packet[i]
\* of the source is p[i + 1]; an index at or past packet.len() panics.
\*   drop    one of the `continue`s
\*   panic   an index out of range
\*   send    a numeric target: send_to(packet[header_len..], dst)
\*   lookup  a domain target: lookup_host(host:port) is awaited
ParseClient(p) ==
    LET len == Len(p)
        Drop == [kind |-> "drop"]
        Panic == [kind |-> "panic"]
    IN  IF len < 3 \/ p[1] # 0 \/ p[2] # 0 \/ p[3] # 0 THEN Drop
        ELSE IF ~(3 < len) THEN Panic
        ELSE IF p[4] = 1 THEN
            IF len < 10 THEN Drop
            ELSE [kind |-> "send",
                  dst |-> [ip |-> SubSeq(p, 5, 8),
                           port |-> from_be_bytes(SubSeq(p, 9, 10))],
                  header_len |-> 10]
        ELSE IF p[4] = 3 THEN
            IF ~(4 < len) THEN Panic
            ELSE IF len < 5 + p[5] + 2 THEN Drop
            ELSE [kind |-> "lookup",
                  host |-> from_utf8_lossy(SubSeq(p, 6, 5 + p[5])),
                  port |-> from_be_bytes(SubSeq(p, 6 + p[5], 7 + p[5])),
                  header_len |-> 5 + p[5] + 2]
        ELSE IF p[4] = 4 THEN
            IF len < 22 THEN Drop
            ELSE [kind |-> "send",
                  dst |-> [ip |-> SubSeq(p, 5, 20),
                           port |-> from_be_bytes(SubSeq(p, 21, 22))],
                  header_len |-> 22]
        ELSE Drop

\* the indexes i of the `packet[i]` reads that parse makes on p, in the
\* source's numbering from 0; `||` stops at its first true operand
IndexesRead(p) ==
    LET len == Len(p)
        Checked == IF len < 3 THEN {}
                   ELSE IF p[1] # 0 THEN {0}
                   ELSE IF p[2] # 0 THEN {0, 1}
                   ELSE {0, 1, 2}
    IN  IF len < 3 \/ p[1] # 0 \/ p[2] # 0 \/ p[3] # 0 THEN Checked
        ELSE IF ~(3 < len) THEN Checked \cup {3}
        ELSE Checked \cup {3} \cup
             (CASE p[4] = 1 -> IF len < 10 THEN {} ELSE 4..9
              []   p[4] = 3 -> IF ~(4 < len) THEN {4}
                               ELSE IF len < 5 + p[5] + 2 THEN {4}
                               ELSE 4..(5 + p[5] + 1)
              []   p[4] = 4 -> IF len < 22 THEN {} ELSE 4..21
              []   OTHER -> {})

\* &packet[header_len..]
Payload(p, header_len) == SubSeq(p, header_len + 1, Len(p))

\* the header handle_udp writes in front of a target's datagram:
\* RSV RSV FRAG ATYP, the source's octets, its port big-endian
Header(src) ==
    <<0, 0, 0, IF Len(src.ip) = 4 THEN 1 ELSE 4>> \o src.ip \o to_be_bytes(src.port)

\* socket.send_to(data, dst) towards a target
SendToTarget(data, dst) ==
    /\ lastSend' = Some([to |-> "target", dst |-> dst, data |-> data])
    /\ nToTarget' = nToTarget + 1
    /\ nToClient' = nToClient

\* socket.send_to(data, dst) towards the client
SendToClient(data, dst) ==
    /\ lastSend' = Some([to |-> "client", dst |-> dst, data |-> data])
    /\ nToClient' = nToClient + 1
    /\ nToTarget' = nToTarget

NoSend == lastSend' = None /\ nToTarget' = nToTarget /\ nToClient' = nToClient

\* a pump that keeps the first client address it saw
PinnedSourceFirst(old, src) == IF old.some THEN old ELSE Some(src)

\* `client_udp_addr = Some(src_addr)` on every datagram from the client's IP
PinnedSource(old, src) == Some(src)

\* the pump can run: the select! polls handle_udp, which owns the socket
PumpRuns == udpOpen

\* one pass of handle_udp's loop up to its next await: recv_from returns
\* (len, src_addr) and the datagram is handled
RecvFrom ==
    /\ PumpRuns
    /\ upc = "recv"
    /\ nRecv < MaxDatagrams
    /\ \E src \in UdpSources, data \in Datagrams :
          /\ lastPkt' = Some([src |-> src, data |-> data])
          /\ nRecv' = nRecv + 1
          /\ IF IsClientSourced(src)
             THEN /\ client_udp_addr' = PinnedSource(client_udp_addr, src)
                  /\ LET r == ParseClient(data)
                     IN  CASE r.kind = "drop" ->
                               /\ NoSend
                               /\ UNCHANGED <<pc, err, udpOpen, upc>>
                         []   r.kind = "panic" ->
                               /\ NoSend
                               /\ pc' = "udp_done"
                               /\ err' = "panic"
                               /\ udpOpen' = FALSE
                               /\ upc' = upc
                         []   r.kind = "send" ->
                               /\ SendToTarget(Payload(data, r.header_len), r.dst)
                               /\ UNCHANGED <<pc, err, udpOpen, upc>>
                         []   r.kind = "lookup" ->
                               /\ NoSend
                               /\ upc' = "lookup"
                               /\ UNCHANGED <<pc, err, udpOpen>>
             ELSE /\ client_udp_addr' = client_udp_addr
                  /\ IF client_udp_addr.some
                     THEN SendToClient(Header(src) \o data, client_udp_addr.val)
                     ELSE NoSend
                  /\ UNCHANGED <<pc, err, udpOpen, upc>>
    /\ UNCHANGED <<srvVars, cfgVars, clientOut, clientBroken, authVars, reqVars, relayVars,
                   client_addr>>

\* lookup_host returns for the domain datagram in lastPkt: the payload goes
\* to the first address, or the datagram is dropped
LookupDone ==
    /\ PumpRuns
    /\ upc = "lookup"
    /\ LET r == ParseClient(lastPkt.val.data)
       IN  \E a \in LookupOutcomes(r.host, r.port) :
              IF a.res # "ok"
              THEN NoSend
              ELSE SendToTarget(Payload(lastPkt.val.data, r.header_len), a.addr.val)
    /\ upc' = "recv"
    /\ UNCHANGED <<srvVars, cfgVars, pc, err, clientOut, clientBroken, authVars, reqVars,
                   relayVars, client_addr, udpOpen, client_udp_addr, lastPkt,
                   nRecv>>

\* recv_from returns an error: handle_udp returns it, dropping the socket,
\* and `res.context(..)?` returns it from handle_client
RecvError ==
    /\ PumpRuns
    /\ upc = "recv"
    /\ pc = "udp_relay"
    /\ udpOpen' = FALSE
    /\ pc' = "udp_done"
    /\ err' = "udp_io"
    /\ UNCHANGED <<srvVars, cfgVars, clientOut, clientBroken, authVars, reqVars, relayVars,
                   client_addr, pumpVars>>

\* a pump that outlives the select!, as a detached task would
SelectKeepsPump == FALSE

\* the select! drops the branch that did not complete: the handle_udp future
\* and the UDP socket it owns
SelectDropsPump == TRUE

\* client_stream.read(&mut buf) completes (a byte, EOF or an error): the
\* select! is over
ControlRead ==
    /\ pc = "udp_relay"
    /\ pc' = "udp_done"
    /\ err' = "ok"
    /\ udpOpen' = (udpOpen /\ ~SelectDropsPump)
    /\ UNCHANGED <<srvVars, cfgVars, clientOut, clientBroken, authVars, reqVars, relayVars,
                   client_addr, pumpVars>>

\* handle_client returns after the select!: client_stream is dropped
SessionEnd ==
    /\ pc = "udp_done"
    /\ pc' = "closed"
    /\ UNCHANGED <<srvVars, cfgVars, err, clientOut, clientBroken, authVars, reqVars,
                   relayVars, udpVars>>

\* a session that Spec brought to the UDP relay: no authentication
\* configured, greeting 05 01 00, request 05 03 00 01 7F 00 00 01 00 50, the
\* UDP socket bound to port 40000
UdpInit ==
    /\ cfgUsername = None
    /\ cfgPassword = None
    /\ pc = "udp_relay"
    /\ err = "none"
    /\ clientOut = <<<<5, 0>>, <<5, 0, 0, 1, 0, 0, 0, 0, 156, 64>>>>
    /\ clientBroken = FALSE
    /\ buf = <<5, 1>>
    /\ nmethods = 1
    /\ methods = <<0>>
    /\ uname = <<>>
    /\ passwd = <<>>
    /\ head = <<5, 3, 0, 1>>
    /\ target = Some([atyp |-> 1, host |-> <<127, 0, 0, 1>>, port |-> 80])
    /\ connectResult = "none"
    /\ udpResult = "ok"
    /\ rd = [d \in Dirs |-> <<>>]
    /\ cbuf = [d \in Dirs |-> <<>>]
    /\ wr = [d \in Dirs |-> <<>>]
    /\ eof = [d \in Dirs |-> FALSE]
    /\ client_addr = ClientAddr
    /\ udpOpen = TRUE
    /\ upc = "recv"
    /\ client_udp_addr = None
    /\ lastPkt = None
    /\ lastSend = None
    /\ nRecv = 0
    /\ nToTarget = 0
    /\ nToClient = 0
    /\ ServingOne

NextUdp ==
    \/ RecvFrom
    \/ LookupDone
    \/ RecvError
    \/ ControlRead
    \/ SessionEnd

SpecUdp == UdpInit /\ [][NextUdp]_vars

\* --------------------------------------------------------------------- main

\* how a spawned task ends: handle_client returns Ok(()), or an Err that
\* the task logs at warn or at error, or handle_client panics and the
\* runtime ends the task at the spawn boundary
TaskResults == {"ok", "warn", "error", "panic"}

\* main before its first statement; no session is followed in SpecServer,
\* the session variables stay as SessionStart leaves them
ServerInit ==
    /\ cfgUsername \in UsernameOptions
    /\ cfgPassword \in PasswordOptions
    /\ SessionStart
    /\ srv = "start"
    /\ tasks = [i \in Sessions |-> "none"]
    /\ nAcceptErr = 0
    /\ signalled = FALSE

\* main up to the loop: Args::parse(), TcpListener::bind(..).await with `?`,
\* the two log lines. args.username and args.password are not compared.
Bind ==
    /\ srv = "start"
    /\ \E bound \in BOOLEAN : srv' = IF bound THEN "listening" ELSE "exit_err"
    /\ UNCHANGED <<cfgVars, sessionVars, tasks, nAcceptErr, signalled>>

\* listener.accept() returns Ok((socket, addr)): keepalive is set (a failure
\* is logged) and handle_client is spawned on the socket
AcceptOk ==
    /\ srv = "listening"
    /\ \E i \in Sessions :
          /\ tasks[i] = "none"
          /\ \A j \in 1..(i - 1) : tasks[j] # "none"
          /\ tasks' = [tasks EXCEPT ![i] = "running"]
    /\ UNCHANGED <<cfgVars, sessionVars, srv, nAcceptErr, signalled>>

\* a loop that gives up at the first accept error
AcceptErrReturns == "exit_err"

\* the `Err(e) =>` arm of the match on accept_result: error!(..), and the
\* loop goes round
AcceptErrLogged == "listening"

\* listener.accept() returns Err(e)
AcceptErr ==
    /\ srv = "listening"
    /\ nAcceptErr < MaxAcceptErrs
    /\ nAcceptErr' = nAcceptErr + 1
    /\ srv' = AcceptErrLogged
    /\ UNCHANGED <<cfgVars, sessionVars, tasks, signalled>>

\* a spawned task ends; its result is logged inside the task and the
\* JoinHandle was dropped at the spawn, so nothing reaches main
TaskEnd ==
    /\ \E i \in Sessions, r \in TaskResults :
          /\ tasks[i] = "running"
          /\ tasks' = [tasks EXCEPT ![i] = r]
    /\ UNCHANGED <<cfgVars, sessionVars, srv, nAcceptErr, signalled>>

\* the ctrl_c() branch of the select! completes: break, main returns Ok(())
\* and the runtime of #[tokio::main] is dropped with the tasks still running
CtrlC ==
    /\ srv = "listening"
    /\ srv' = "exit_ok"
    /\ signalled' = TRUE
    /\ tasks' = [i \in Sessions |->
                    IF tasks[i] = "running" THEN "cancelled" ELSE tasks[i]]
    /\ UNCHANGED <<cfgVars, sessionVars, nAcceptErr>>

NextServer ==
    \/ Bind
    \/ AcceptOk
    \/ AcceptErr
    \/ TaskEnd
    \/ CtrlC

SpecServer == ServerInit /\ [][NextServer]_vars

\* =================================================================== claims
\* the 10-byte SOCKS replies among the writes on the client socket
IsReply(w) == Len(w) = 10
Replies == SelectSeq(clientOut, IsReply)

\* the greeting, and the sub-negotiation where it ran, ended in success
GreetingComplete == \E i \in DOMAIN clientOut : clientOut[i] \in {<<5, 0>>, <<1, 0>>}

\* the request header has been read
RequestRead == head # <<>>

\* ---- C1 as stated: a request with VER 5 and a CMD other than CONNECT and
\* UDP ASSOCIATE, whatever its ATYP, read in full from a working socket
\* before the deadline, is answered by exactly one reply, REP 0x07, and
\* nothing is connected or bound.
C1_AnyAtypRep07 ==
    (/\ pc = "closed"
     /\ RequestRead
     /\ head[1] = 5
     /\ head[2] \notin {1, 3}
     /\ err \notin {"timeout", "eof", "io"})
    => (Replies = <<ErrorReply(7)>> /\ connectResult = "none" /\ udpResult = "none")

\* C1 (amended): a request with a CMD other than 0x01 and 0x03 never leads to
\* a connect, a UDP bind or a relay; when its VER is 5, its ATYP is 1, 3 or 4
\* and its address was read, the session closes with exactly one reply,
\* REP 0x07, as its last write (unless the client socket is broken); when
\* its VER is 5 and its ATYP is any other value the one reply has REP 0x08.
C1_UnsupportedCommand ==
    (RequestRead /\ head[2] \notin {1, 3}) =>
        /\ connectResult = "none"
        /\ udpResult = "none"
        /\ ~udpOpen
        /\ pc \notin {"connect", "udp_bind", "relay", "udp_relay"}
        /\ (pc = "closed" /\ head[1] = 5 /\ head[4] \in SupportedAtyp
              /\ target.some /\ err # "io")
           => (/\ Replies = <<ErrorReply(7)>>
               /\ clientOut[Len(clientOut)] = ErrorReply(7)
               /\ err = "cmd")
        /\ (pc = "closed" /\ head[1] = 5 /\ head[4] \notin SupportedAtyp
              /\ err # "io")
           => (Replies = <<ErrorReply(8)>> /\ err = "atyp")

\* C1 witness: a BIND request with an IPv4 address was answered 0x07 and the
\* session closed
C1_Witness ==
    /\ pc = "closed"
    /\ GreetingComplete
    /\ head = <<5, 2, 0, 1>>
    /\ target.some
    /\ Replies = <<ErrorReply(7)>>

\* ---- C2: with authentication enabled (main's `args.username.is_some()`),
\* the server never selects method 0x00 (never writes 05 00), and no session
\* is at or past the request stage without a successful sub-negotiation
\* (01 00 written).
C2_AuthNeverBypassed ==
    AuthEnabled =>
        /\ \A i \in DOMAIN clientOut : clientOut[i] # <<5, 0>>
        /\ (RequestRead \/ pc \in {"request", "addr", "connect", "udp_bind",
                                   "relay", "udp_relay"})
           => \E i \in DOMAIN clientOut : clientOut[i] = <<1, 0>>

\* C2, the part that holds: when both a username and a password are
\* configured, 05 00 is never written and the request stage is reached only
\* after 01 00.
C2_BothCredentialsGiven ==
    AuthConfigured =>
        /\ \A i \in DOMAIN clientOut : clientOut[i] # <<5, 0>>
        /\ (RequestRead \/ pc \in {"request", "addr", "connect", "udp_bind",
                                   "relay", "udp_relay"})
           => \E i \in DOMAIN clientOut : clientOut[i] = <<1, 0>>

\* ---- C3: once 05 02 was written and the credentials were read and
\* answered, the answer is 01 00 exactly when the submitted username and
\* password bytes equal the bytes of the configured username and password.
C3_ByteForByte ==
    (/\ Len(clientOut) >= 2
     /\ clientOut[1] = <<5, 2>>
     /\ clientOut[2] \in {<<1, 0>>, <<1, 1>>})
    => (clientOut[2] = <<1, 0>>
        <=> (uname = as_bytes(cfgUsername.val) /\ passwd = as_bytes(cfgPassword.val)))

\* ---- C9: the REP the claim assigns to each kind of connect failure
ClaimedRep(kind) ==
    CASE kind = "host_unreachable" -> 4
    []   kind = "net_unreachable" -> 3
    []   kind = "refused" -> 5
    []   kind = "ttl_expired" -> 6
    []   OTHER -> 1

\* C9: a session that ended because the connect failed wrote one reply whose
\* REP is the claimed code of the failure kind (refused: 05 05 00 01 ..).
C9_RepByFailureKind ==
    (pc = "closed" /\ err = "connect")
    => Replies = <<ErrorReply(ClaimedRep(connectResult))>>

\* ---- C10: a session that completed the greeting and then ended on a bad
\* request version, an unsupported command or address type, a connect
\* failure or a UDP bind failure (the client socket not being broken) wrote
\* exactly one 10-byte reply.
C10_OneReplyOnFailure ==
    (/\ pc = "closed"
     /\ GreetingComplete
     /\ err \in {"reqver", "cmd", "atyp", "connect", "bind_failed"})
    => Len(Replies) = 1

\* ---- C4: a relay that returned without an I/O error returned after both
\* directions reached their EOF: the direction that had not yet seen EOF
\* when the other one ended kept relaying.
C4_BothDirectionsDone ==
    (pc = "closed" /\ err = "ok") => (eof["c2t"] /\ eof["t2c"])

\* a is a prefix of b
IsPrefix(a, b) == Len(a) <= Len(b) /\ a = SubSeq(b, 1, Len(a))

\* ---- C5: in each direction the bytes written are at every moment a prefix
\* of the bytes read, and a relay that ended without an I/O error has
\* written every byte it read.
C5_NothingDiscarded ==
    /\ \A d \in Dirs : IsPrefix(wr[d], rd[d])
    /\ (pc = "closed" /\ err = "ok") => \A d \in Dirs : wr[d] = rd[d]

\* a step that receives a datagram
Receives == nRecv' = nRecv + 1

\* ---- C6: a datagram whose source IP is not the TCP peer's is never
\* handled as a client datagram, whatever its bytes: nothing is sent to a
\* target, no lookup starts, no parse aborts the pump, and client_udp_addr
\* is left as it was; client_udp_addr, when set, has the TCP peer's IP.
C6_ForeignNeverClient ==
    /\ [](client_udp_addr.some => client_udp_addr.val.ip = client_addr.ip)
    /\ [][(Receives /\ lastPkt'.val.src.ip # client_addr.ip)
           => (/\ client_udp_addr' = client_udp_addr
               /\ nToTarget' = nToTarget
               /\ upc' = upc
               /\ pc' = pc
               /\ udpOpen' = udpOpen
               /\ (lastSend'.some => lastSend'.val.to = "client"))]_vars

\* C6 witness: a well-formed client-style datagram arrived from another host
\* after the client's address was learnt, and went to the client
C6_Witness ==
    /\ lastPkt.some
    /\ lastPkt.val.src.ip # client_addr.ip
    /\ lastPkt.val.data = <<0, 0, 0, 1, 8, 8, 8, 8, 0, 53, 7>>
    /\ client_udp_addr.some
    /\ lastSend.some
    /\ lastSend.val.to = "client"

\* the select! of the UDP branch is over
AssociationOver == pc \in {"udp_done", "closed"}

\* ---- C7: once the read on the control socket has completed the UDP socket
\* is closed and no datagram is received or sent any more; the socket is
\* closed in the step that ends the select!, before the session is closed.
C7_AssociationTiedToControl ==
    /\ [](AssociationOver => ~udpOpen)
    /\ [][AssociationOver => (/\ nRecv' = nRecv
                              /\ nToTarget' = nToTarget
                              /\ nToClient' = nToClient
                              /\ lastSend' = lastSend)]_vars
    /\ [][pc' = "closed" => (pc = "udp_done" /\ ~udpOpen)]_vars

\* C7 witness: an association that forwarded datagrams was ended by the
\* control socket and the session closed
C7_Witness ==
    /\ pc = "closed"
    /\ err = "ok"
    /\ nToTarget > 0
    /\ nToClient > 0

\* the datagrams the claim calls malformed
Malformed(p) ==
    \/ Len(p) < 4
    \/ p[1] # 0 \/ p[2] # 0 \/ p[3] # 0
    \/ p[4] \notin {1, 3, 4}
    \/ (p[4] = 1 /\ Len(p) < 10)
    \/ (p[4] = 4 /\ Len(p) < 22)
    \/ (p[4] = 3 /\ (Len(p) < 5 \/ Len(p) < 5 + p[5] + 2))

\* ---- C8: a client-sourced datagram that is malformed is dropped: nothing
\* is sent to a target or to the client, and the pump keeps running, ready
\* for the next datagram.
C8_MalformedDropped ==
    [][(Receives /\ IsClientSourced(lastPkt'.val.src) /\ Malformed(lastPkt'.val.data))
        => (/\ nToTarget' = nToTarget
            /\ nToClient' = nToClient
            /\ udpOpen'
            /\ pc' = "udp_relay"
            /\ upc' = "recv")]_vars

\* the failure replies written so far: the 10-byte replies with REP # 0
IsFailureReply(w) == IsReply(w) /\ w[2] # 0

\* ---- C11: once a reply with REP # 0x00 has been written it is the last
\* write on the client socket and the session is closed: it is at no
\* position that could write again, it never reaches a relay, and no relay
\* byte was written to the client.
C11_NothingAfterFailureReply ==
    \A i \in DOMAIN clientOut :
        IsFailureReply(clientOut[i]) =>
            /\ i = Len(clientOut)
            /\ pc = "closed"
            /\ err \in {"atyp", "cmd", "connect"}
            /\ wr["t2c"] = <<>>

\* C11 witness: a failed connect was answered 05 04 .. and the session closed
C11_Witness ==
    /\ pc = "closed"
    /\ connectResult = "refused"
    /\ clientOut[Len(clientOut)] = ErrorReply(4)

\* ---- C12: a session is past the greeting only when the greeting's VER was
\* 0x05; when VER is anything else the session is closed with nothing written
\* to the client and no method list read, with or without credentials
\* configured.
C12_BadGreetingVersion ==
    /\ pc \notin {"greeting", "closed"} => buf[1] = 5
    /\ (pc = "closed" /\ buf[1] # 5)
       => (clientOut = <<>> /\ methods = <<>> /\ head = <<>>
           /\ err \in {"version", "eof", "timeout", "no_peer"})

\* C12 witness: the greeting 04 01 was read with credentials configured and
\* the session closed on the version check
C12_Witness ==
    /\ AuthConfigured
    /\ buf = <<4, 1>>
    /\ pc = "closed"
    /\ err = "version"
    /\ clientOut = <<>>

\* the positions of the greeting, the sub-negotiation, the request and the
\* connect or bind it asks for: everything before a relay
HandshakeActivity == {"greeting", "methods", "auth_ver", "auth_cred", "request",
                      "addr", "connect", "udp_bind"}

\* ---- C13: the deadline can fire at every position of the greeting, the
\* sub-negotiation, the request and the connect; the step in which it fires
\* closes the session without writing to the client and with no UDP socket
\* left, and a session ended by it stays closed, outside any relay; with the
\* timer running every session eventually leaves the handshake, so a session
\* whose client stalls is closed.
C13_HandshakeDeadline ==
    /\ [](pc \in HandshakeActivity => ENABLED Timeout)
    /\ [][(err' = "timeout" /\ err # "timeout")
           => (/\ pc \in HandshakeActivity
               /\ pc' = "closed"
               /\ clientOut' = clientOut
               /\ ~udpOpen')]_vars
    /\ [](err = "timeout" => (pc = "closed" /\ ~udpOpen /\ wr["t2c"] = <<>>))
    /\ <>(pc \notin HandshakeActivity)
    /\ \A p \in HandshakeActivity : ~<>[](pc = p)

\* C13 witness: the deadline fired while the request was awaited, after the
\* greeting had been answered
C13_Witness ==
    /\ err = "timeout"
    /\ pc = "closed"
    /\ clientOut = <<<<5, 0>>>>
    /\ head = <<>>

\* the reply datagram of the association's echo: 00 00 00, ATYP, the
\* target's octets, its port high byte first, then the payload
EchoReply(t, payload) ==
    <<0, 0, 0, IF Len(t.ip) = 4 THEN 1 ELSE 4>> \o t.ip
        \o <<t.port \div 256, t.port % 256>> \o payload

\* C14: once a client datagram's payload has been forwarded to target T, a
\* datagram received next from T goes to the client's UDP source address as
\* header || payload, the header naming T; for every T, a target on the
\* client's own IP included.
C14_EchoFromTarget ==
    [][(/\ Receives
        /\ lastSend.some /\ lastSend.val.to = "target"
        /\ client_udp_addr.some
        /\ lastPkt'.val.src = lastSend.val.dst)
       => lastSend' = Some([to |-> "client", dst |-> client_udp_addr.val,
                            data |-> EchoReply(lastSend.val.dst,
                                               lastPkt'.val.data)])]_vars

\* the ways a session fails: an Err logged at warn (authentication failure,
\* early EOF, timeout, no acceptable method), any other Err, a panic
SessionFailures == {"warn", "error", "panic"}

\* C15: no session failure and no accept error ends the accept loop or
\* touches another session; the loop is left only when the shutdown signal
\* fires, until then an accept is possible, and each accept spawns exactly
\* one session.
C15_AcceptLoopSurvives ==
    /\ [][/\ (srv = "listening" /\ srv' # "listening")
              => (~signalled /\ signalled' /\ nAcceptErr' = nAcceptErr)
          /\ \A i \in Sessions :
                (tasks[i] = "running" /\ tasks'[i] \in SessionFailures)
                => (/\ srv' = srv
                    /\ \A j \in Sessions \ {i} : tasks'[j] = tasks[j])
          /\ nAcceptErr' # nAcceptErr
              => (srv' = "listening" /\ tasks' = tasks)
          /\ \A i \in Sessions :
                (tasks[i] = "none" /\ tasks'[i] # "none")
                => (/\ tasks'[i] = "running"
                    /\ srv = "listening" /\ srv' = "listening"
                    /\ \A j \in Sessions \ {i} : tasks'[j] = tasks[j])]_vars
    /\ [](srv = "listening" => ~signalled)
    /\ []((srv = "listening" /\ \E i \in Sessions : tasks[i] = "none")
          => ENABLED AcceptOk)

C15_Witness ==
    /\ srv = "listening"
    /\ nAcceptErr > 0
    /\ tasks[1] = "panic"
    /\ tasks[2] = "error"
    /\ tasks[3] = "running"

\* C16: a configuration with exactly one of username and password is
\* rejected: main exits nonzero and never listens or spawns a session.
C16_OneSidedConfigRejected ==
    (cfgUsername.some # cfgPassword.some)
    => (srv \in {"start", "exit_err"} /\ \A i \in Sessions : tasks[i] = "none")

\* C17: every index the UDP header parser reads in a client-sourced
\* datagram is below the datagram's length, and no datagram ends the
\* session through an out-of-range access.
C17_ReadsWithinLength ==
    (lastPkt.some /\ IsClientSourced(lastPkt.val.src))
    => (/\ \A i \in IndexesRead(lastPkt.val.data) : i < Len(lastPkt.val.data)
        /\ err # "panic")

\* how often the CONNECT success reply has been written on the client socket
SuccessReplies ==
    Cardinality({i \in DOMAIN clientOut :
                    clientOut[i] = <<5, 0, 0, 1, 0, 0, 0, 0, 0, 0>>})

RelayUntouched == \A d \in Dirs : rd[d] = <<>> /\ wr[d] = <<>>

\* C18: the CONNECT success reply is written at most once and only after
\* the connect succeeded; it is written before the relay has read or
\* written anything, and every relay write in either direction happens
\* after it.
C18_SuccessReplyFirst ==
    /\ [](SuccessReplies <= 1)
    /\ [](SuccessReplies = 1 => (connectResult = "ok" /\ head[2] = 1))
    /\ [](SuccessReplies = 0 => RelayUntouched)
    /\ [][SuccessReplies' # SuccessReplies
           => (/\ connectResult' = "ok"
               /\ RelayUntouched /\ RelayUntouched')]_vars
    /\ [][(wr' # wr \/ rd' # rd)
           => (SuccessReplies = 1 /\ clientOut' = clientOut)]_vars

C18_Witness ==
    /\ SuccessReplies = 1
    /\ wr["t2c"] # <<>>
    /\ wr["c2t"] # <<>>
    /\ clientOut[Len(clientOut)] = SuccessReply

\* C19: a request whose address is a domain name of length 0 never gets a
\* reply with REP 0x00 and never reaches a relay, whichever its command.
C19_EmptyDomainRejected ==
    (target.some /\ target.val.atyp = 3 /\ target.val.host = <<>>)
    => (/\ pc \notin {"relay", "udp_relay"}
        /\ \A i \in DOMAIN clientOut :
              ~(Len(clientOut[i]) = 10 /\ clientOut[i][2] = 0))

\* a datagram was received from the IP the association is pinned to
ReceivesPinned == Receives /\ lastPkt'.val.src.ip = client_addr.ip

TargetSourced == Receives /\ lastPkt'.val.src.ip # client_addr.ip

\* C20: client_udp_addr is unset until a datagram from the pinned IP has
\* arrived, and from then on is the source address of the most recent such
\* datagram; a target-sourced datagram is sent on exactly when
\* client_udp_addr is set, to that address, and is dropped with nothing sent
\* while it is unset.
C20_LastWriterWins ==
    /\ [](nRecv = 0 => client_udp_addr = None)
    /\ [][ReceivesPinned => client_udp_addr' = Some(lastPkt'.val.src)]_vars
    /\ [][~ReceivesPinned => client_udp_addr' = client_udp_addr]_vars
    /\ [][TargetSourced
           => IF client_udp_addr.some
              THEN /\ nToClient' = nToClient + 1
                   /\ nToTarget' = nToTarget
                   /\ lastSend'.some
                   /\ lastSend'.val.to = "client"
                   /\ lastSend'.val.dst = client_udp_addr.val
              ELSE /\ nToClient' = nToClient
                   /\ nToTarget' = nToTarget
                   /\ lastSend' = None]_vars

C20_Witness ==
    /\ nRecv = 3
    /\ nToTarget = 1
    /\ client_udp_addr = Some([ip |-> <<127, 0, 0, 1>>, port |-> 53])
    /\ lastSend.some
    /\ lastSend.val.to = "client"
    /\ lastSend.val.dst.port = 53

====
